---- MODULE Spec2Model ----
(***************************************************************************)
(* The validators of packages/contracts (ticket minting, primary sale,     *)
(* resale) as predicates over a transaction context, and a ledger that     *)
(* submits candidate transactions to the validator guarding a ticket and   *)
(* applies the ones it accepts.                                            *)
(*                                                                         *)
(* Byte strings whose content matters (event ids, token names, policy ids) *)
(* are sequences of small numbers, so that startswith is a real prefix     *)
(* test.  Signer identities and action tags are strings.                   *)
(***************************************************************************)
EXTENDS Integers, Sequences, FiniteSets, TLC

VARIABLES script, event, ticket, supply, ctx, verdict, bag, found

vars == <<script, event, ticket, supply, ctx, verdict, bag, found>>

(***************************************************************************)
(* Bounds of the model.                                                    *)
(***************************************************************************)
MaxPrice == 2
MaxTickets == 2
MaxSupply == 2

(***************************************************************************)
(* Identities, identifiers, values.                                        *)
(***************************************************************************)
PKH == {"org", "bob", "eve"}
Organizer == "org"
OwnAddress == "script"

EventId == <<1>>
OtherEventId == <<2>>
EventIds == {EventId, OtherEventId}
TicketId == <<1, 1>>
OtherTicketId == <<1, 2>>
TicketIds == {TicketId, OtherTicketId}

OwnPolicy == <<9>>
OtherPolicy == <<1, 9>>
TokenName == <<1, 1>>
OtherTokenName == <<2, 1>>

Prices == 1..MaxPrice
Flags == {0, 1}
RoyaltyAmounts == {0, 1}
Lovelace == 0..MaxPrice

NoDatum == [none |-> TRUE]
NoCtx == [none |-> TRUE]
NoBag == [kind |-> "other"]
Pending == [pending |-> TRUE]

(***************************************************************************)
(* Value bags.  A bag holds the base currency and, in the order the ledger *)
(* presents them, the other asset classes with their quantities.           *)
(***************************************************************************)
Asset(policy, name, qty) == [policy |-> policy, name |-> name, qty |-> qty]
Value(lovelace, tokens) == [lovelace |-> lovelace, tokens |-> tokens]

\* value.get(policy_id, {}).get(token_name, 0)
QuantityOf(value, policy, name) ==
    LET hits == {i \in DOMAIN value.tokens :
                    value.tokens[i].policy = policy /\ value.tokens[i].name = name}
    IN  IF hits = {} THEN 0 ELSE value.tokens[CHOOSE i \in hits : TRUE].qty

\* value.get(b"", 0): the base-currency entry as the code receives it.
LovelaceEntry(value) == [kind |-> "int", n |-> value.lovelace]

\* PrimarySale.py extract_lovelace: an int is returned as it is, a mapping
\* gives its b"" entry, anything else gives 0.
extract_lovelace(entry) ==
    CASE entry.kind = "int" -> entry.n
      [] entry.kind = "dict" -> IF entry.has_base THEN entry.base ELSE 0
      [] OTHER -> 0

\* The position of the first element of seq satisfying Test, 0 when none does
\* (a for loop that breaks on its first match).
FirstIndex(seq, Test(_)) ==
    IF \E i \in DOMAIN seq : Test(seq[i])
    THEN CHOOSE i \in DOMAIN seq :
            Test(seq[i]) /\ \A j \in 1..(i - 1) : ~Test(seq[j])
    ELSE 0

\* any(tx_info.signatories): some signatory is a non-empty byte string.
AnySignatory(signatories) == \E s \in signatories : s # ""

(***************************************************************************)
(* Locating the continuing output and a payment.                           *)
(***************************************************************************)
\* The datum of the first output at the script's own address that holds
\* exactly one of (policy, name); NoDatum when there is no such output or it
\* carries no datum (build_primary_sale.py, primary_sale.py, Resale.py and
\* resale.py share this loop).
continuing_output_datum(outputs, policy, name) ==
    LET Matches(o) == o.address = OwnAddress /\ QuantityOf(o.value, policy, name) = 1
        i == FirstIndex(outputs, Matches)
    IN  IF i = 0 THEN NoDatum ELSE outputs[i].datum

\* Some output addressed to payee carries at least amount of base currency.
payment_found_weak(outputs, payee, amount) ==
    \E i \in DOMAIN outputs :
        outputs[i].address = payee /\ outputs[i].value.lovelace >= amount - 1

payment_found(outputs, payee, amount) ==
    \E i \in DOMAIN outputs :
        outputs[i].address = payee /\ outputs[i].value.lovelace >= amount

(***************************************************************************)
(* build_primary_sale.py and primary_sale.py                               *)
(***************************************************************************)
build_primary_sale_validator_any_flag(c) ==
    LET redeemer == c.redeemer
        input_datum == c.own_datum
        output_datum == continuing_output_datum(c.outputs, c.own_policy_id, c.own_token_name)
    IN  /\ redeemer.action = "buy"
        /\ redeemer.buyer \in c.signatories
        /\ output_datum # NoDatum
        /\ output_datum.owner = redeemer.buyer
        /\ output_datum.event_id = input_datum.event_id
        /\ output_datum.ticket_id = input_datum.ticket_id
        /\ output_datum.price = input_datum.price
        /\ output_datum.is_for_resale = input_datum.is_for_resale
        /\ output_datum.royalty_address = input_datum.royalty_address
        /\ output_datum.royalty_amount = input_datum.royalty_amount
        /\ payment_found(c.outputs, input_datum.owner, input_datum.price)

build_primary_sale_validator(c) ==
    LET redeemer == c.redeemer
        input_datum == c.own_datum
        output_datum == continuing_output_datum(c.outputs, c.own_policy_id, c.own_token_name)
    IN  /\ redeemer.action = "buy"
        /\ input_datum.is_for_resale = 0
        /\ redeemer.buyer \in c.signatories
        /\ output_datum # NoDatum
        /\ output_datum.owner = redeemer.buyer
        /\ output_datum.event_id = input_datum.event_id
        /\ output_datum.ticket_id = input_datum.ticket_id
        /\ output_datum.price = input_datum.price
        /\ output_datum.is_for_resale = input_datum.is_for_resale
        /\ output_datum.royalty_address = input_datum.royalty_address
        /\ output_datum.royalty_amount = input_datum.royalty_amount
        /\ payment_found(c.outputs, input_datum.owner, input_datum.price)

primary_sale_validator_any_price(c) ==
    LET redeemer == c.redeemer
        input_datum == c.own_datum
        output_datum == continuing_output_datum(c.outputs, c.own_policy_id, c.own_token_name)
    IN  /\ redeemer.action = "buy"
        /\ ~(input_datum.is_for_resale # 0)
        /\ redeemer.buyer \in c.signatories
        /\ output_datum # NoDatum
        /\ output_datum.owner = redeemer.buyer
        /\ output_datum.event_id = input_datum.event_id
        /\ output_datum.ticket_id = input_datum.ticket_id
        /\ output_datum.is_for_resale = input_datum.is_for_resale
        /\ output_datum.royalty_address = input_datum.royalty_address
        /\ output_datum.royalty_amount = input_datum.royalty_amount
        /\ payment_found(c.outputs, input_datum.owner, input_datum.price)

primary_sale_validator(c) ==
    LET redeemer == c.redeemer
        input_datum == c.own_datum
        output_datum == continuing_output_datum(c.outputs, c.own_policy_id, c.own_token_name)
    IN  /\ redeemer.action = "buy"
        /\ ~(input_datum.is_for_resale # 0)
        /\ redeemer.buyer \in c.signatories
        /\ output_datum # NoDatum
        /\ output_datum.owner = redeemer.buyer
        /\ output_datum.event_id = input_datum.event_id
        /\ output_datum.ticket_id = input_datum.ticket_id
        /\ output_datum.price = input_datum.price
        /\ output_datum.is_for_resale = input_datum.is_for_resale
        /\ output_datum.royalty_address = input_datum.royalty_address
        /\ output_datum.royalty_amount = input_datum.royalty_amount
        /\ payment_found(c.outputs, input_datum.owner, input_datum.price)

(***************************************************************************)
(* Resale.py and resale.py                                                 *)
(***************************************************************************)
Resale_list_unsigned(c, output_datum) ==
    LET redeemer == c.redeemer
        input_datum == c.own_datum
    IN  /\ output_datum.is_for_resale # 0
        /\ output_datum.price = redeemer.new_price
        /\ output_datum.owner = input_datum.owner
        /\ output_datum.event_id = input_datum.event_id
        /\ output_datum.ticket_id = input_datum.ticket_id
        /\ output_datum.royalty_address = input_datum.royalty_address
        /\ output_datum.royalty_amount = input_datum.royalty_amount

Resale_list_any_price(c, output_datum) ==
    LET redeemer == c.redeemer
        input_datum == c.own_datum
    IN  /\ input_datum.owner \in c.signatories
        /\ output_datum.is_for_resale # 0
        /\ output_datum.owner = input_datum.owner
        /\ output_datum.event_id = input_datum.event_id
        /\ output_datum.ticket_id = input_datum.ticket_id
        /\ output_datum.royalty_address = input_datum.royalty_address
        /\ output_datum.royalty_amount = input_datum.royalty_amount

Resale_list(c, output_datum) ==
    LET redeemer == c.redeemer
        input_datum == c.own_datum
    IN  /\ input_datum.owner \in c.signatories
        /\ output_datum.is_for_resale # 0
        /\ output_datum.price = redeemer.new_price
        /\ output_datum.owner = input_datum.owner
        /\ output_datum.event_id = input_datum.event_id
        /\ output_datum.ticket_id = input_datum.ticket_id
        /\ output_datum.royalty_address = input_datum.royalty_address
        /\ output_datum.royalty_amount = input_datum.royalty_amount

Resale_buy_no_royalty_scan(c, output_datum) ==
    LET input_datum == c.own_datum
    IN  /\ input_datum.is_for_resale # 0
        /\ AnySignatory(c.signatories)
        /\ output_datum.is_for_resale = 0
        /\ output_datum.owner # input_datum.owner
        /\ output_datum.event_id = input_datum.event_id
        /\ output_datum.ticket_id = input_datum.ticket_id
        /\ output_datum.price = input_datum.price
        /\ output_datum.royalty_address = input_datum.royalty_address
        /\ output_datum.royalty_amount = input_datum.royalty_amount
        /\ payment_found(c.outputs, input_datum.owner, input_datum.price)

Resale_buy_no_ticket_id(c, output_datum) ==
    LET input_datum == c.own_datum
    IN  /\ input_datum.is_for_resale # 0
        /\ AnySignatory(c.signatories)
        /\ output_datum.is_for_resale = 0
        /\ output_datum.owner # input_datum.owner
        /\ output_datum.event_id = input_datum.event_id
        /\ output_datum.price = input_datum.price
        /\ output_datum.royalty_address = input_datum.royalty_address
        /\ output_datum.royalty_amount = input_datum.royalty_amount
        /\ payment_found(c.outputs, input_datum.owner, input_datum.price)
        /\ payment_found(c.outputs, input_datum.royalty_address,
                         input_datum.royalty_amount)

Resale_buy_unlisted(c, output_datum) ==
    LET input_datum == c.own_datum
    IN  /\ AnySignatory(c.signatories)
        /\ output_datum.is_for_resale = 0
        /\ output_datum.owner # input_datum.owner
        /\ output_datum.event_id = input_datum.event_id
        /\ output_datum.ticket_id = input_datum.ticket_id
        /\ output_datum.price = input_datum.price
        /\ output_datum.royalty_address = input_datum.royalty_address
        /\ output_datum.royalty_amount = input_datum.royalty_amount
        /\ payment_found(c.outputs, input_datum.owner, input_datum.price)
        /\ payment_found(c.outputs, input_datum.royalty_address,
                         input_datum.royalty_amount)

Resale_buy(c, output_datum) ==
    LET input_datum == c.own_datum
    IN  /\ input_datum.is_for_resale # 0
        /\ AnySignatory(c.signatories)
        /\ output_datum.is_for_resale = 0
        /\ output_datum.owner # input_datum.owner
        /\ output_datum.event_id = input_datum.event_id
        /\ output_datum.ticket_id = input_datum.ticket_id
        /\ output_datum.price = input_datum.price
        /\ output_datum.royalty_address = input_datum.royalty_address
        /\ output_datum.royalty_amount = input_datum.royalty_amount
        /\ payment_found(c.outputs, input_datum.owner, input_datum.price)
        /\ payment_found(c.outputs, input_datum.royalty_address,
                         input_datum.royalty_amount)

Resale_validator_default_accept(c) ==
    LET output_datum == continuing_output_datum(c.outputs, c.own_policy_id, c.own_token_name)
    IN  /\ output_datum # NoDatum
        /\ CASE c.redeemer.action = "list" -> Resale_list(c, output_datum)
             [] c.redeemer.action = "buy" -> Resale_buy(c, output_datum)
             [] OTHER -> TRUE

Resale_validator(c) ==
    LET output_datum == continuing_output_datum(c.outputs, c.own_policy_id, c.own_token_name)
    IN  /\ output_datum # NoDatum
        /\ CASE c.redeemer.action = "list" -> Resale_list(c, output_datum)
             [] c.redeemer.action = "buy" -> Resale_buy(c, output_datum)
             [] OTHER -> FALSE

\* resale.py: the same checks, with the flag read for its truth value.
resale_validator(c) ==
    LET redeemer == c.redeemer
        input_datum == c.own_datum
        output_datum == continuing_output_datum(c.outputs, c.own_policy_id, c.own_token_name)
    IN  /\ output_datum # NoDatum
        /\ CASE redeemer.action = "list" ->
                  /\ input_datum.owner \in c.signatories
                  /\ output_datum.is_for_resale # 0
                  /\ output_datum.price = redeemer.new_price
                  /\ output_datum.owner = input_datum.owner
                  /\ output_datum.event_id = input_datum.event_id
                  /\ output_datum.ticket_id = input_datum.ticket_id
                  /\ output_datum.royalty_address = input_datum.royalty_address
                  /\ output_datum.royalty_amount = input_datum.royalty_amount
             [] redeemer.action = "buy" ->
                  /\ input_datum.is_for_resale # 0
                  /\ AnySignatory(c.signatories)
                  /\ ~(output_datum.is_for_resale # 0)
                  /\ output_datum.owner # input_datum.owner
                  /\ output_datum.event_id = input_datum.event_id
                  /\ output_datum.ticket_id = input_datum.ticket_id
                  /\ output_datum.price = input_datum.price
                  /\ output_datum.royalty_address = input_datum.royalty_address
                  /\ output_datum.royalty_amount = input_datum.royalty_amount
                  /\ payment_found(c.outputs, input_datum.owner, input_datum.price)
                  /\ payment_found(c.outputs, input_datum.royalty_address,
                                   input_datum.royalty_amount)
             [] OTHER -> FALSE

(***************************************************************************)
(* PrimarySale.py                                                          *)
(***************************************************************************)
\* The first input resolved at the script's own address, 0 when there is none.
find_own_input(tx_inputs, script_address) ==
    LET AtScript(tx_in) == tx_in.address = script_address
    IN  FirstIndex(tx_inputs, AtScript)

\* A value as the mapping the helpers walk: the entries of a dict in their
\* order, as key and val; the base currency under the empty key, each other
\* asset class under its policy id, then its token name.  (No value of the
\* ledger here holds two token names of one policy.)
AsMapping(value) ==
    [kind |-> "dict",
     items |-> <<[key |-> <<>>, val |-> LovelaceEntry(value)]>> \o
               [i \in DOMAIN value.tokens |->
                  [key |-> value.tokens[i].policy,
                   val |-> [kind |-> "dict",
                            items |-> <<[key |-> value.tokens[i].name,
                                         val |-> [kind |-> "int",
                                                  n |-> value.tokens[i].qty]]>>]]]]

\* find_nft_in_value: None (NoDatum) for a value that is not a dict; otherwise
\* the first policy id and token name, in the order of the dicts, whose amount
\* converts to the integer 1.  The empty policy id and token maps that are not
\* dicts are skipped; an amount int() raises on is skipped.
find_nft_in_value(value) ==
    IF value.kind # "dict" THEN NoDatum
    ELSE LET IsOne(item) == item.val.kind = "int" /\ item.val.n = 1
             HasOne(entry) ==
                 /\ entry.key # <<>>
                 /\ entry.val.kind = "dict"
                 /\ \E j \in DOMAIN entry.val.items : IsOne(entry.val.items[j])
             i == FirstIndex(value.items, HasOne)
         IN  IF i = 0 THEN NoDatum
             ELSE LET token_map == value.items[i].val
                      j == FirstIndex(token_map.items, IsOne)
                  IN  [policy |-> value.items[i].key, name |-> token_map.items[j].key]

\* Lines 112-123: the first output at the script's own address holding one of
\* the token; a missing datum on it is a rejection.
PrimarySale_output_datum(outputs, policy, name) ==
    LET Matches(o) == QuantityOf(o.value, policy, name) = 1 /\ o.address = OwnAddress
        i == FirstIndex(outputs, Matches)
    IN  IF i = 0 THEN NoDatum ELSE outputs[i].datum

\* Lines 145-165: the resale path's two payments, found in one pass.
PrimarySale_resale_payment(c) ==
    LET input_datum == c.own_datum
        offered == c.redeemer.offered_price
        royalty_needed == input_datum.royalty_amount
        owner_expected_min == offered - royalty_needed
        owner_payment_ok ==
            \E i \in DOMAIN c.outputs :
                /\ c.outputs[i].address = input_datum.owner
                /\ extract_lovelace(LovelaceEntry(c.outputs[i].value)) >= owner_expected_min
        royalty_payment_ok ==
            \E i \in DOMAIN c.outputs :
                /\ c.outputs[i].address = input_datum.royalty_address
                /\ extract_lovelace(LovelaceEntry(c.outputs[i].value)) >= royalty_needed
    IN  owner_payment_ok /\ royalty_payment_ok

\* Lines 135-143: the primary path's payment.
PrimarySale_primary_payment(c) ==
    LET input_datum == c.own_datum
        required_amount == input_datum.price
    IN  \E i \in DOMAIN c.outputs :
            /\ c.outputs[i].address = input_datum.owner
            /\ extract_lovelace(LovelaceEntry(c.outputs[i].value)) >= required_amount

PrimarySale_validator(c) ==
    LET redeemer_obj == c.redeemer
        input_datum == c.own_datum
        own_input == find_own_input(c.inputs, OwnAddress)
        nft_ident == IF own_input = 0 THEN NoDatum
                     ELSE find_nft_in_value(AsMapping(c.inputs[own_input].value))
        output_datum_obj ==
            IF nft_ident = NoDatum THEN NoDatum
            ELSE PrimarySale_output_datum(c.outputs, nft_ident.policy, nft_ident.name)
    IN  /\ redeemer_obj.cls = "BuyRedeemer"
        /\ redeemer_obj.action = "buy"
        /\ redeemer_obj.buyer \in c.signatories
        /\ input_datum # NoDatum
        /\ own_input # 0
        /\ nft_ident # NoDatum
        /\ output_datum_obj # NoDatum
        /\ output_datum_obj.owner = redeemer_obj.buyer
        /\ output_datum_obj.event_id = input_datum.event_id
        /\ output_datum_obj.ticket_id = input_datum.ticket_id
        /\ output_datum_obj.is_for_resale = 0
        /\ IF input_datum.is_for_resale = 0
           THEN PrimarySale_primary_payment(c)
           ELSE PrimarySale_resale_payment(c)

(***************************************************************************)
(* Minting validators.  The mint field maps a policy id to a map from      *)
(* token names to signed quantities.                                       *)
(***************************************************************************)
\* bytes.startswith
StartsWith(bytes, prefix) ==
    /\ Len(prefix) <= Len(bytes)
    /\ SubSeq(bytes, 1, Len(prefix)) = prefix

RECURSIVE SumOver(_, _)
SumOver(f, keys) ==
    IF keys = {} THEN 0
    ELSE LET k == CHOOSE x \in keys : TRUE
         IN  f[k] + SumOver(f, keys \ {k})

\* The empty map: {}.
EmptyMap == [k \in {} |-> 0]

\* build_minting_policy.py lines 60-66: every minted name carries the event's
\* prefix, every amount is 1, and the amounts add up to at most total_tickets.
token_amounts_ok_uncapped(token_amounts, event_id, total_tickets) ==
    /\ \A token_name \in DOMAIN token_amounts :
          /\ StartsWith(token_name, event_id)
          /\ token_amounts[token_name] = 1

token_amounts_ok(token_amounts, event_id, total_tickets) ==
    /\ \A token_name \in DOMAIN token_amounts :
          /\ StartsWith(token_name, event_id)
          /\ token_amounts[token_name] = 1
    /\ SumOver(token_amounts, DOMAIN token_amounts) <= total_tickets

build_minting_policy_validator_unsigned(event_datum, c) ==
    LET redeemer == c.redeemer
        purpose == c.purpose
        policy_id == purpose.policy_id
        minted == c.mint
        token_amounts == IF policy_id \notin DOMAIN minted THEN EmptyMap
                         ELSE minted[policy_id]
    IN  /\ redeemer.cls = "MintRedeemer"
        /\ redeemer.action = "mint"
        /\ purpose.kind = "Minting"
        /\ redeemer.event_id = event_datum.event_id
        /\ token_amounts_ok(token_amounts, redeemer.event_id, event_datum.total_tickets)
        /\ Cardinality(DOMAIN minted) = 1

build_minting_policy_validator_other_currencies(event_datum, c) ==
    LET redeemer == c.redeemer
        purpose == c.purpose
        policy_id == purpose.policy_id
        minted == c.mint
        token_amounts == IF policy_id \notin DOMAIN minted THEN EmptyMap
                         ELSE minted[policy_id]
    IN  /\ redeemer.cls = "MintRedeemer"
        /\ redeemer.action = "mint"
        /\ purpose.kind = "Minting"
        /\ redeemer.event_id = event_datum.event_id
        /\ event_datum.organizer \in c.signatories
        /\ token_amounts_ok(token_amounts, redeemer.event_id, event_datum.total_tickets)

build_minting_policy_validator(event_datum, c) ==
    LET redeemer == c.redeemer
        purpose == c.purpose
        policy_id == purpose.policy_id
        minted == c.mint
        token_amounts == IF policy_id \notin DOMAIN minted THEN EmptyMap
                         ELSE minted[policy_id]
    IN  /\ redeemer.cls = "MintRedeemer"
        /\ redeemer.action = "mint"
        /\ purpose.kind = "Minting"
        /\ redeemer.event_id = event_datum.event_id
        /\ event_datum.organizer \in c.signatories
        /\ token_amounts_ok(token_amounts, redeemer.event_id, event_datum.total_tickets)
        /\ Cardinality(DOMAIN minted) = 1

\* minting_policy.py: the loop runs over the items of the mint field itself,
\* so what it calls token_name is a policy id and what it calls amount is that
\* policy's token map, which never equals 1.
minting_policy_validator(c) ==
    LET redeemer == c.redeemer
        event_datum == c.own_datum
        minted == c.mint
        expected_token_prefix == redeemer.event_id
    IN  /\ redeemer.action = "mint"
        /\ event_datum # NoDatum
        /\ "event_id" \in DOMAIN redeemer  \* reading a missing attribute raises
        /\ redeemer.event_id = event_datum.event_id
        /\ event_datum.organizer \in c.signatories
        /\ \A token_name \in DOMAIN minted :
              /\ StartsWith(token_name, expected_token_prefix)
              /\ FALSE

\* MintingPolicy.py: one token name forged, minted or burnt by the tag.
RequiredSignatory == "org"

MintingPolicy_validator_by_sign(c) ==
    LET purpose == c.purpose
        policy_id == purpose.policy_id
        redeemer == c.redeemer
    IN  /\ purpose.kind = "Minting"
        /\ RequiredSignatory \in c.signatories
        /\ policy_id \in DOMAIN c.mint
        /\ LET forged_tokens == c.mint[policy_id]
           IN  /\ Cardinality(DOMAIN forged_tokens) = 1
               /\ \A token_name \in DOMAIN forged_tokens :
                     /\ redeemer.action_type \in {1, 2}
                     /\ \/ forged_tokens[token_name] = 1
                        \/ forged_tokens[token_name] < 0

MintingPolicy_validator(c) ==
    LET purpose == c.purpose
        policy_id == purpose.policy_id
        redeemer == c.redeemer
    IN  /\ purpose.kind = "Minting"
        /\ RequiredSignatory \in c.signatories
        /\ policy_id \in DOMAIN c.mint
        /\ LET forged_tokens == c.mint[policy_id]
           IN  /\ Cardinality(DOMAIN forged_tokens) = 1
               /\ \A token_name \in DOMAIN forged_tokens :
                     CASE redeemer.action_type = 1 -> forged_tokens[token_name] = 1
                       [] redeemer.action_type = 2 -> forged_tokens[token_name] < 0
                       [] OTHER -> FALSE

(***************************************************************************)
(* The records on the ledger.                                              *)
(***************************************************************************)
EventDatum(total_tickets) ==
    [organizer |-> Organizer, event_id |-> EventId, event_name |-> <<>>,
     total_tickets |-> total_tickets, ticket_price |-> MaxPrice,
     royalty_percentage |-> 0]

\* The ticket as it is locked at a script after its mint.  No minting
\* validator reads the datum, so the flag is whatever the minter wrote; at a
\* resale script, which can list it, the ticket starts not listed.
TicketDatum(is_for_resale) ==
    [event_id |-> EventId, ticket_id |-> TicketId, owner |-> Organizer,
     price |-> MaxPrice, is_for_resale |-> is_for_resale,
     royalty_address |-> Organizer, royalty_amount |-> 1]

TicketFields == {"event_id", "ticket_id", "owner", "price", "is_for_resale",
                 "royalty_address", "royalty_amount"}

FieldValues(field) ==
    CASE field = "event_id" -> EventIds
      [] field = "ticket_id" -> TicketIds
      [] field = "owner" -> PKH
      [] field = "price" -> Prices
      [] field = "is_for_resale" -> Flags
      [] field = "royalty_address" -> PKH
      [] field = "royalty_amount" -> RoyaltyAmounts

\* A datum and every datum that differs from it in one field.
OneFieldEdits(datum) ==
    {[datum EXCEPT ![f] = v] : <<f, v>> \in
        UNION {{<<f, v>> : v \in FieldValues(f)} : f \in TicketFields}}

\* seq with x put at position i, and seq without its element at position i.
InsertAt(seq, i, x) == SubSeq(seq, 1, i - 1) \o <<x>> \o SubSeq(seq, i, Len(seq))
RemoveAt(seq, i) == SubSeq(seq, 1, i - 1) \o SubSeq(seq, i + 1, Len(seq))

\* The sequences that come from seq by replacing one element by, or adding,
\* one of choices, or by removing one element.
OneElementEdits(seq, choices) ==
    {[seq EXCEPT ![i] = x] : i \in DOMAIN seq, x \in choices}
        \cup {InsertAt(seq, i, x) : i \in 1..(Len(seq) + 1), x \in choices}
        \cup {RemoveAt(seq, i) : i \in DOMAIN seq}

(***************************************************************************)
(* Transactions.  A transaction is described by its redeemer, signatories, *)
(* inputs, the outputs at the script address and the payment outputs.  The *)
(* transactions submitted are the well-formed transaction of an intent     *)
(* (buy for a buyer, list at a price) and every transaction that departs   *)
(* from it in one part: another redeemer, another set of signatories, or   *)
(* one input or output replaced, added or removed.                         *)
(***************************************************************************)
ScriptOutput(qty, datum) ==
    [address |-> OwnAddress,
     value |-> Value(0, IF qty = 0 THEN <<>> ELSE <<Asset(OwnPolicy, TokenName, qty)>>),
     datum |-> datum]

Payment(payee, lovelace) ==
    [address |-> payee, value |-> Value(lovelace, <<>>), datum |-> NoDatum]

TxInput(address, tokens) == [address |-> address, value |-> Value(0, tokens)]

TicketInput == TxInput(OwnAddress, <<Asset(OwnPolicy, TokenName, 1)>>)

\* The context of the invocation for the input that holds (policy, name)
\* under own_datum.
InvocationContext(tx, own_datum, policy, name) ==
    [redeemer |-> tx.redeemer, signatories |-> tx.signatories, inputs |-> tx.inputs,
     outputs |-> tx.script_outputs \o tx.payments, own_datum |-> own_datum,
     own_policy_id |-> policy, own_token_name |-> name]

SpendingContext(tx, own_datum) == InvocationContext(tx, own_datum, OwnPolicy, TokenName)

ScriptOutputChoices(datum) ==
    {ScriptOutput(1, e) : e \in OneFieldEdits(datum) \cup {NoDatum}}
        \cup {ScriptOutput(0, datum), ScriptOutput(2, datum)}

PaymentChoices == {Payment(payee, n) : payee \in PKH, n \in Lovelace}

InputChoices ==
    {TxInput(a, t) : a \in {OwnAddress, "bob"},
                     t \in {<<>>, <<Asset(OwnPolicy, TokenName, 1)>>,
                            <<Asset(OwnPolicy, OtherTokenName, 1)>>}}

\* The ticket's own output is among the inputs of a transaction that spends it.
InputEdits(inputs) ==
    {i \in OneElementEdits(inputs, InputChoices) :
        \E k \in DOMAIN i : i[k] = TicketInput}

\* The transactions that differ from tx in at most one part.
Departures(tx, redeemers) ==
    {[tx EXCEPT !.redeemer = r] : r \in redeemers}
        \cup {[tx EXCEPT !.signatories = s] : s \in SUBSET PKH}
        \cup {[tx EXCEPT !.inputs = i] : i \in InputEdits(tx.inputs)}
        \cup {[tx EXCEPT !.script_outputs = o] :
                o \in OneElementEdits(tx.script_outputs,
                                      ScriptOutputChoices(tx.script_outputs[1].datum))}
        \cup {[tx EXCEPT !.payments = p] : p \in OneElementEdits(tx.payments, PaymentChoices)}

BuyRedeemers == [action : {"buy", "list"}, buyer : PKH]
ResellRedeemers == [action : {"list", "buy", "cancel"}, new_price : Prices]
OfferedPrices == 0..(MaxPrice + 1)
OfferRedeemers ==
    [cls : {"BuyRedeemer"}, action : {"buy", "list"}, buyer : PKH,
     offered_price : OfferedPrices]
        \cup [cls : {"ResellRedeemer"}, action : {"buy"}, new_price : Prices]

\* A primary purchase by buyer: the ticket passes to the buyer, the owner is paid.
PrimaryBuyTx(d, buyer) ==
    [redeemer |-> [action |-> "buy", buyer |-> buyer],
     signatories |-> {buyer},
     inputs |-> <<TicketInput>>,
     script_outputs |-> <<ScriptOutput(1, [d EXCEPT !.owner = buyer])>>,
     payments |-> <<Payment(d.owner, d.price)>>]

\* The owner lists the ticket at new_price.
ListTx(d, new_price) ==
    [redeemer |-> [action |-> "list", new_price |-> new_price],
     signatories |-> {d.owner},
     inputs |-> <<TicketInput>>,
     script_outputs |-> <<ScriptOutput(1, [d EXCEPT !.price = new_price,
                                                   !.is_for_resale = 1])>>,
     payments |-> <<>>]

\* A purchase of a listed ticket: seller and royalty beneficiary are paid.
ResaleBuyTx(d, buyer) ==
    [redeemer |-> [action |-> "buy", new_price |-> d.price],
     signatories |-> {buyer},
     inputs |-> <<TicketInput>>,
     script_outputs |-> <<ScriptOutput(1, [d EXCEPT !.owner = buyer,
                                                   !.is_for_resale = 0])>>,
     payments |-> <<Payment(d.owner, d.price),
                    Payment(d.royalty_address, d.royalty_amount)>>]

\* A purchase through PrimarySale.py at the price the buyer offers: on the
\* resale path the royalty goes to its beneficiary and the remainder of the
\* offer to the owner.
OfferBuyTx(d, buyer, offered) ==
    [redeemer |-> [cls |-> "BuyRedeemer", action |-> "buy", buyer |-> buyer,
                   offered_price |-> offered],
     signatories |-> {buyer},
     inputs |-> <<TicketInput>>,
     script_outputs |-> <<ScriptOutput(1, [d EXCEPT !.owner = buyer,
                                                   !.is_for_resale = 0])>>,
     payments |-> IF d.is_for_resale = 0
                  THEN <<Payment(d.owner, d.price)>>
                  ELSE <<Payment(d.owner, IF offered > d.royalty_amount
                                          THEN offered - d.royalty_amount ELSE 0),
                         Payment(d.royalty_address, d.royalty_amount)>>]

PrimaryTxs(d) ==
    UNION {Departures(PrimaryBuyTx(d, b), BuyRedeemers) : b \in PKH}

ResaleTxs(d) ==
    UNION {Departures(ListTx(d, p), ResellRedeemers) : p \in Prices}
        \cup UNION {Departures(ResaleBuyTx(d, b), ResellRedeemers) : b \in PKH}

\* The purchases at the listed price with their departures, and the
\* well-formed purchases at every other offer.
OfferTxs(d) ==
    UNION {Departures(OfferBuyTx(d, b, d.price), OfferRedeemers) : b \in PKH}
        \cup {OfferBuyTx(d, b, o) : b \in PKH, o \in OfferedPrices}

(***************************************************************************)
(* Minting transactions: purpose, redeemer, signatories and mint field.    *)
(***************************************************************************)
MintNames == {<<1, k>> : k \in 1..(MaxTickets + 1)} \cup {OtherTokenName}
EventNames == {n \in MintNames : StartsWith(n, EventId)}
MintAmounts == {-1, 1, 2}
TokenMaps == UNION {[names -> MintAmounts] : names \in SUBSET MintNames}

Purposes == {[kind |-> "Minting", policy_id |-> OwnPolicy], [kind |-> "Spending"]}

MintOf(token_amounts) == [p \in {OwnPolicy} |-> token_amounts]
MintWithOther(token_amounts) ==
    [p \in {OwnPolicy, OtherPolicy} |->
        IF p = OwnPolicy THEN token_amounts ELSE [n \in {OtherTokenName} |-> 1]]
MintFields ==
    {EmptyMap, [p \in {OtherPolicy} |-> [n \in {OtherTokenName} |-> 1]]}
        \cup {MintOf(m) : m \in TokenMaps} \cup {MintWithOther(m) : m \in TokenMaps}

MintRedeemers ==
    [cls : {"MintRedeemer"}, action : {"mint", "burn"}, event_id : EventIds]
        \cup [cls : {"BuyRedeemer"}, action : {"mint"}, buyer : PKH]
ActionRedeemers == [action_type : {1, 2, 3}]

\* The script run to spend an output locked at it, in a transaction that
\* mints nothing.
SpendingPurpose == [kind |-> "Spending"]

MintDepartures(tx, redeemers) ==
    {[tx EXCEPT !.purpose = p] : p \in Purposes}
        \cup {[tx EXCEPT !.purpose = SpendingPurpose, !.mint = EmptyMap]}
        \cup {[tx EXCEPT !.redeemer = r] : r \in redeemers}
        \cup {[tx EXCEPT !.signatories = s] : s \in SUBSET PKH}
        \cup {[tx EXCEPT !.mint = m] : m \in MintFields}

\* The organizer mints one token of name under the event.
MintTx(name) ==
    [purpose |-> [kind |-> "Minting", policy_id |-> OwnPolicy],
     redeemer |-> [cls |-> "MintRedeemer", action |-> "mint", event_id |-> EventId],
     signatories |-> {Organizer},
     mint |-> MintOf([n \in {name} |-> 1])]

\* MintingPolicy.py: a mint (1) or a burn (2) of one token of name.
ForgeTx(name, action_type) ==
    [purpose |-> [kind |-> "Minting", policy_id |-> OwnPolicy],
     redeemer |-> [action_type |-> action_type],
     signatories |-> {RequiredSignatory},
     mint |-> MintOf([n \in {name} |-> IF action_type = 1 THEN 1 ELSE -1])]

MintTxs == UNION {MintDepartures(MintTx(n), MintRedeemers) : n \in EventNames}
ForgeTxs ==
    UNION {MintDepartures(ForgeTx(n, t), ActionRedeemers) :
              n \in MintNames, t \in {1, 2}}

MintingContext(tx, own_datum) ==
    [purpose |-> tx.purpose, redeemer |-> tx.redeemer, signatories |-> tx.signatories,
     mint |-> tx.mint, own_datum |-> own_datum]

\* The quantity of name the transaction mints under the script's policy.
MintedOf(mint, name) ==
    IF OwnPolicy \in DOMAIN mint /\ name \in DOMAIN mint[OwnPolicy]
    THEN mint[OwnPolicy][name] ELSE 0

TotalSupply(s) == SumOver(s, DOMAIN s)

\* What the ledger itself requires of a mint field: nothing is burnt that does
\* not exist.  The supply the model follows is capped.
LedgerAdmits(mint) ==
    LET after == [n \in MintNames |-> supply[n] + MintedOf(mint, n)]
    IN  /\ \A n \in MintNames : after[n] >= 0 /\ after[n] <= MaxSupply
        /\ TotalSupply(after) <= MaxTickets + 1

\* The ledger runs a policy's script for the minting purpose only in a
\* transaction whose mint field holds tokens of that policy.
LedgerInvokes(tx) ==
    tx.purpose.kind = "Minting"
        => /\ tx.purpose.policy_id \in DOMAIN tx.mint
           /\ DOMAIN tx.mint[tx.purpose.policy_id] # {}

(***************************************************************************)
(* The ledger.  One script guards the behaviour's tokens; each step it is  *)
(* handed a transaction, and an accepted transaction is applied.           *)
(***************************************************************************)
MintScripts == {"build_minting_policy", "minting_policy", "MintingPolicy"}
SaleScripts == {"build_primary_sale", "primary_sale", "PrimarySale", "Resale", "resale"}
PrimaryScripts == {"build_primary_sale", "primary_sale"}
ResaleScripts == {"Resale", "resale"}

Init ==
    /\ script \in MintScripts \cup SaleScripts
    /\ event \in {EventDatum(n) : n \in 1..MaxTickets}
    /\ script \in SaleScripts => event = EventDatum(MaxTickets)
    /\ IF script \in SaleScripts
       THEN /\ ticket \in {TicketDatum(f) :
                            f \in IF script \in ResaleScripts THEN {0} ELSE Flags}
            /\ supply \in {[n \in MintNames |-> IF n = TokenName THEN k ELSE 0] :
                              k \in {1, MaxSupply}}
       ELSE /\ ticket = NoDatum
            /\ supply = [n \in MintNames |-> 0]
    /\ ctx = NoCtx
    /\ verdict = "none"
    /\ bag = NoBag
    /\ found = Pending

\* The outputs of a transaction cannot hold more of the ticket's token than
\* exists.  (A minting validator accepts a second mint of a name in a later
\* transaction, so a token can exist more than once.)
LedgerConserves(tx) ==
    LET held == [i \in DOMAIN tx.script_outputs |->
                    QuantityOf(tx.script_outputs[i].value, OwnPolicy, TokenName)]
    IN  SumOver(held, DOMAIN held) <= supply[TokenName]

\* The validator's decision on c, and the ticket as the transaction leaves it.
Spend(c, accepted) ==
    /\ ctx' = c
    /\ verdict' = IF accepted THEN "accept" ELSE "reject"
    /\ ticket' = IF accepted
                 THEN continuing_output_datum(c.outputs, OwnPolicy, TokenName)
                 ELSE ticket
    /\ UNCHANGED <<script, event, supply, bag, found>>

Mint(c, accepted) ==
    /\ ctx' = c
    /\ verdict' = IF accepted THEN "accept" ELSE "reject"
    /\ supply' = IF accepted
                 THEN [n \in MintNames |-> supply[n] + MintedOf(c.mint, n)]
                 ELSE supply
    /\ UNCHANGED <<script, event, ticket, bag, found>>

Idle == verdict = "none"

Spend_build_primary_sale ==
    /\ Idle /\ script = "build_primary_sale" /\ ticket # NoDatum
    /\ \E tx \in PrimaryTxs(ticket) :
          /\ LedgerConserves(tx)
          /\ LET c == SpendingContext(tx, ticket)
             IN  Spend(c, build_primary_sale_validator(c))

Spend_primary_sale ==
    /\ Idle /\ script = "primary_sale" /\ ticket # NoDatum
    /\ \E tx \in PrimaryTxs(ticket) :
          /\ LedgerConserves(tx)
          /\ LET c == SpendingContext(tx, ticket)
             IN  Spend(c, primary_sale_validator(c))

Spend_PrimarySale ==
    /\ Idle /\ script = "PrimarySale" /\ ticket # NoDatum
    /\ \E tx \in OfferTxs(ticket) :
          /\ LedgerConserves(tx)
          /\ LET c == SpendingContext(tx, ticket)
             IN  Spend(c, PrimarySale_validator(c))

Spend_Resale ==
    /\ Idle /\ script = "Resale" /\ ticket # NoDatum
    /\ \E tx \in ResaleTxs(ticket) :
          /\ LedgerConserves(tx)
          /\ LET c == SpendingContext(tx, ticket)
             IN  Spend(c, Resale_validator(c))

Spend_resale ==
    /\ Idle /\ script = "resale" /\ ticket # NoDatum
    /\ \E tx \in ResaleTxs(ticket) :
          /\ LedgerConserves(tx)
          /\ LET c == SpendingContext(tx, ticket)
             IN  Spend(c, resale_validator(c))

Mint_build_minting_policy ==
    /\ Idle /\ script = "build_minting_policy"
    /\ \E tx \in MintTxs :
          /\ LedgerAdmits(tx.mint) /\ LedgerInvokes(tx)
          /\ LET c == MintingContext(tx, event)
             IN  Mint(c, build_minting_policy_validator(event, c))

Mint_minting_policy ==
    /\ Idle /\ script = "minting_policy"
    /\ \E tx \in MintTxs :
          /\ LedgerAdmits(tx.mint) /\ LedgerInvokes(tx)
          /\ LET c == MintingContext(tx, event)
             IN  Mint(c, minting_policy_validator(c))

Mint_MintingPolicy ==
    /\ Idle /\ script = "MintingPolicy"
    /\ \E tx \in ForgeTxs :
          /\ LedgerAdmits(tx.mint) /\ LedgerInvokes(tx)
          /\ LET c == MintingContext(tx, event)
             IN  Mint(c, MintingPolicy_validator(c))

\* The ledger is done with the transaction and takes the next one.
Settle ==
    /\ ~Idle
    /\ ctx' = NoCtx
    /\ verdict' = "none"
    /\ UNCHANGED <<script, event, ticket, supply, bag, found>>

Next ==
    \/ Spend_build_primary_sale
    \/ Spend_primary_sale
    \/ Spend_PrimarySale
    \/ Spend_Resale
    \/ Spend_resale
    \/ Mint_build_minting_policy
    \/ Mint_minting_policy
    \/ Mint_MintingPolicy
    \/ Settle

Spec == Init /\ [][Next]_vars

(***************************************************************************)
(* find_nft_in_value on its own: the function applied to every value of a  *)
(* bounded family of well-formed and malformed values.                     *)
(***************************************************************************)
\* The orders in which the elements of S can stand in a dict.
Orderings(S) ==
    {o \in [1..Cardinality(S) -> S] : \A i, j \in DOMAIN o : i # j => o[i] # o[j]}

\* The dicts with some of keys as keys, in any order, and values from vals.
DictsOver(keys, vals) ==
    {[kind |-> "dict", items |-> [i \in DOMAIN o |-> [key |-> o[i], val |-> f[o[i]]]]] :
        <<o, f>> \in UNION {Orderings(K) \X [K -> vals] : K \in SUBSET keys}}

\* An amount is an integer or something int() raises on.
Amounts == {[kind |-> "int", n |-> k] : k \in 1..MaxSupply} \cup {[kind |-> "none"]}
\* What stands under a policy id: a dict from token names to amounts, or an
\* integer.
TokenDicts == DictsOver({TokenName, OtherTokenName}, Amounts) \cup {[kind |-> "int", n |-> 1]}
\* What stands under the empty key: the base currency as an integer, or as a
\* dict with the empty token name.
BaseEntries == {[kind |-> "int", n |-> 1]} \cup DictsOver({<<>>}, {[kind |-> "int", n |-> 1]})

\* The values: something that is not a dict, and the dicts of policy ids
\* without or with a base-currency entry at any place in their order.
TokenBags == DictsOver({OwnPolicy, OtherPolicy}, TokenDicts)
WithBase(v, i, b) ==
    [kind |-> "dict", items |-> InsertAt(v.items, i, [key |-> <<>>, val |-> b])]
IsValueBag(v) ==
    \/ v = NoBag
    \/ v \in TokenBags
    \/ \E t \in TokenBags : \E i \in 1..(Len(t.items) + 1), b \in BaseEntries :
          v = WithBase(t, i, b)

FindInit ==
    /\ script = "PrimarySale"
    /\ event = EventDatum(MaxTickets)
    /\ ticket = NoDatum
    /\ supply = [n \in MintNames |-> 0]
    /\ ctx = NoCtx
    /\ verdict = "none"
    /\ IsValueBag(bag)
    /\ found = Pending

Apply_find_nft_in_value ==
    /\ found = Pending
    /\ found' = find_nft_in_value(bag)
    /\ UNCHANGED <<script, event, ticket, supply, ctx, verdict, bag>>

FindNext == Apply_find_nft_in_value

FindSpec == FindInit /\ [][FindNext]_vars

(***************************************************************************)
(* Transactions that spend two outputs locked at the script.  The ledger    *)
(* runs the script once for each of the two inputs, on the same            *)
(* transaction and each time with the datum and the token of that input,   *)
(* and accepts the transaction when both invocations accept.               *)
(***************************************************************************)
SecondTokenName == <<1, 2>>

\* What else is locked at the script: another ticket of the same owner, at
\* its own price, or an output that someone locked there with a token of
\* another policy and a copy of the ticket's datum naming them as the owner.
Sibling(d, price) ==
    [policy |-> OwnPolicy, name |-> SecondTokenName,
     datum |-> [d EXCEPT !.ticket_id = OtherTicketId, !.price = price]]

Foreign(d, who) ==
    [policy |-> OtherPolicy, name |-> OtherTokenName, datum |-> [d EXCEPT !.owner = who]]

Companions(d) == {Sibling(d, p) : p \in Prices} \cup {Foreign(d, "eve")}

LockedInput(u) == TxInput(OwnAddress, <<Asset(u.policy, u.name, 1)>>)

LockedOutput(u, datum) ==
    [address |-> OwnAddress, value |-> Value(0, <<Asset(u.policy, u.name, 1)>>),
     datum |-> datum]

\* The well-formed purchase of a ticket under datum d from script s.
SaleTx(s, d, buyer) ==
    CASE s \in PrimaryScripts -> PrimaryBuyTx(d, buyer)
      [] s \in ResaleScripts -> ResaleBuyTx(d, buyer)
      [] OTHER -> OfferBuyTx(d, buyer, d.price)

\* buyer buys the ticket and u in one transaction: each input has its
\* redeemer, each token its continuing output, each purchase its payments.
PairTx(s, d, u, buyer, ticket_first) ==
    LET first == SaleTx(s, d, buyer)
        other == SaleTx(s, u.datum, buyer)
    IN  [redeemer |-> first.redeemer,
         second_redeemer |-> other.redeemer,
         second |-> u,
         signatories |-> first.signatories,
         inputs |-> IF ticket_first THEN <<TicketInput, LockedInput(u)>>
                    ELSE <<LockedInput(u), TicketInput>>,
         script_outputs |-> first.script_outputs
                              \o <<LockedOutput(u, other.script_outputs[1].datum)>>,
         payments |-> first.payments \o other.payments]

\* tx, and tx with other signatories, without one of the continuing
\* outputs, or with one payment replaced, added or removed.
PairDepartures(tx) ==
    {tx}
        \cup {[tx EXCEPT !.signatories = s] : s \in SUBSET PKH}
        \cup {[tx EXCEPT !.script_outputs = RemoveAt(tx.script_outputs, i)] :
                i \in DOMAIN tx.script_outputs}
        \cup {[tx EXCEPT !.payments = p] : p \in OneElementEdits(tx.payments, PaymentChoices)}

PairTxs(s, d) ==
    UNION {PairDepartures(PairTx(s, d, u, b, o)) :
              u \in Companions(d), b \in PKH, o \in BOOLEAN}

\* The decision of script s on the invocation with context c.
Validate(s, c) ==
    CASE s = "build_primary_sale" -> build_primary_sale_validator(c)
      [] s = "primary_sale" -> primary_sale_validator(c)
      [] s = "PrimarySale" -> PrimarySale_validator(c)
      [] s = "Resale" -> Resale_validator(c)
      [] s = "resale" -> resale_validator(c)

\* The invocation for the ticket and the invocation for the second input.
SecondContext(tx) ==
    [InvocationContext(tx, tx.second.datum, tx.second.policy, tx.second.name)
        EXCEPT !.redeemer = tx.second_redeemer]

SpendPair ==
    /\ Idle /\ script \in SaleScripts /\ ticket # NoDatum
    /\ \E tx \in PairTxs(script, ticket) :
          /\ LedgerConserves(tx)
          /\ LET c == SpendingContext(tx, ticket)
                 c2 == SecondContext(tx)
             IN  Spend(c @@ ("second" :> c2), Validate(script, c) /\ Validate(script, c2))

PairInit == Init /\ script \in SaleScripts

PairNext ==
    \/ Spend_build_primary_sale
    \/ Spend_primary_sale
    \/ Spend_PrimarySale
    \/ Spend_Resale
    \/ Spend_resale
    \/ SpendPair
    \/ Settle

PairSpec == PairInit /\ [][PairNext]_vars

(***************************************************************************)
(* Properties.                                                             *)
(***************************************************************************)
Accepted == verdict = "accept"
Rejected == verdict = "reject"
Decided == verdict # "none"

\* The output datum the validator of the script checked in context c.
ValidatedDatum(c) ==
    IF script = "PrimarySale"
    THEN LET own_input == find_own_input(c.inputs, OwnAddress)
             nft_ident == IF own_input = 0 THEN NoDatum
                          ELSE find_nft_in_value(AsMapping(c.inputs[own_input].value))
         IN  IF nft_ident = NoDatum THEN NoDatum
             ELSE PrimarySale_output_datum(c.outputs, nft_ident.policy, nft_ident.name)
    ELSE continuing_output_datum(c.outputs, OwnPolicy, TokenName)

\* The quantity a mint field mints under the script's own policy.
MintedInTx(mint) ==
    IF OwnPolicy \in DOMAIN mint
    THEN SumOver(mint[OwnPolicy], DOMAIN mint[OwnPolicy]) ELSE 0

\* C1: under build_minting_policy.py and minting_policy.py the quantity minted
\* for the event over all accepted transactions never exceeds total_tickets.
C1_CumulativeSupplyCapped ==
    script \in {"build_minting_policy", "minting_policy"}
        => TotalSupply(supply) <= event.total_tickets

\* C2: a transaction build_minting_policy.py accepts mints, under the policy,
\* quantities that add up to at most total_tickets.
C2_MintWithinCap ==
    (script = "build_minting_policy" /\ Accepted)
        => MintedInTx(ctx.mint) <= event.total_tickets

\* C2 witness: a mint of total_tickets + 1 prefixed names, one of each, signed
\* by the organizer, is rejected.
C2_Witness ==
    /\ script = "build_minting_policy" /\ Rejected
    /\ OwnPolicy \in DOMAIN ctx.mint
    /\ Cardinality(DOMAIN ctx.mint[OwnPolicy]) = event.total_tickets + 1
    /\ \A n \in DOMAIN ctx.mint[OwnPolicy] :
          ctx.mint[OwnPolicy][n] = 1 /\ StartsWith(n, EventId)
    /\ Organizer \in ctx.signatories
    /\ ctx.redeemer = [cls |-> "MintRedeemer", action |-> "mint", event_id |-> EventId]

\* C3: every accepted spend leaves royalty_address and royalty_amount as they
\* were in the input datum.
C3_RoyaltyUnchanged ==
    (script \in SaleScripts /\ Accepted)
        => /\ ValidatedDatum(ctx).royalty_address = ctx.own_datum.royalty_address
           /\ ValidatedDatum(ctx).royalty_amount = ctx.own_datum.royalty_amount

\* C4: every accepted spend leaves event_id and ticket_id as they were in the
\* input datum, and a ticket locked at a script carries the ids of its mint.
C4_IdsUnchanged ==
    /\ (script \in SaleScripts /\ Accepted)
          => /\ ValidatedDatum(ctx).event_id = ctx.own_datum.event_id
             /\ ValidatedDatum(ctx).ticket_id = ctx.own_datum.ticket_id
    /\ (script \in SaleScripts /\ ticket # NoDatum)
          => ticket.event_id = EventId /\ ticket.ticket_id = TicketId

\* C4 witness: a listed ticket bought from a later owner, two transitions
\* after its first sale.
C4_Witness ==
    /\ script = "Resale" /\ Accepted
    /\ ctx.redeemer.action = "buy"
    /\ ctx.own_datum.owner # Organizer
    /\ ticket.owner # ctx.own_datum.owner

\* C5: a resale buy whose buyer, the owner named by the continuing output
\* datum, has not signed is rejected.
C5_UnsignedBuyerRejected ==
    (/\ script \in ResaleScripts /\ Decided
     /\ ctx.redeemer.action = "buy"
     /\ ValidatedDatum(ctx) # NoDatum
     /\ ValidatedDatum(ctx).owner \notin ctx.signatories)
        => Rejected

\* C6: an accepted resale buy has an output to the seller of at least the price
\* and an output to the royalty beneficiary of at least the royalty.
C6_BothPaymentsPresent ==
    (script \in ResaleScripts /\ Accepted /\ ctx.redeemer.action = "buy")
        => /\ \E i \in DOMAIN ctx.outputs :
                 /\ ctx.outputs[i].address = ctx.own_datum.owner
                 /\ ctx.outputs[i].value.lovelace >= ctx.own_datum.price
           /\ \E j \in DOMAIN ctx.outputs :
                 /\ ctx.outputs[j].address = ctx.own_datum.royalty_address
                 /\ ctx.outputs[j].value.lovelace >= ctx.own_datum.royalty_amount

\* C6 witness: an accepted buy whose seller is not the royalty beneficiary.
C6_Witness ==
    /\ script = "Resale" /\ Accepted /\ ctx.redeemer.action = "buy"
    /\ ctx.own_datum.owner # ctx.own_datum.royalty_address
    /\ ctx.own_datum.royalty_amount > 0

\* C7: a list that the owner of the input datum has not signed is rejected.
C7_UnsignedListRejected ==
    (/\ script \in ResaleScripts /\ Decided
     /\ ctx.redeemer.action = "list"
     /\ ctx.own_datum.owner \notin ctx.signatories)
        => Rejected

\* C7 witness: a list with a well-formed continuing output, signed by others
\* but not by the owner, is rejected.
C7_Witness ==
    /\ script = "Resale" /\ Rejected
    /\ ctx.redeemer.action = "list"
    /\ ctx.own_datum.owner \notin ctx.signatories
    /\ ctx.signatories # {}
    /\ ValidatedDatum(ctx) = [ctx.own_datum EXCEPT !.price = ctx.redeemer.new_price,
                                                   !.is_for_resale = 1]

\* A primary purchase that passes every check but, possibly, the payment.
OnlyPaymentOpen(c) ==
    /\ c.own_datum.is_for_resale = 0
    /\ script = "PrimarySale" => "offered_price" \in DOMAIN c.redeemer
    /\ \E b \in PKH :
          LET tx == IF script = "PrimarySale"
                    THEN OfferBuyTx(c.own_datum, b, c.redeemer.offered_price)
                    ELSE PrimaryBuyTx(c.own_datum, b)
          IN  /\ c.redeemer = tx.redeemer
              /\ c.signatories = tx.signatories
              /\ c.inputs = tx.inputs
              /\ SubSeq(c.outputs, 1, 1) = tx.script_outputs
              /\ \A i \in 2..Len(c.outputs) : c.outputs[i].address \in PKH

PaysOwner(c, amount) ==
    \E i \in DOMAIN c.outputs :
        /\ c.outputs[i].address = c.own_datum.owner
        /\ c.outputs[i].value.lovelace >= amount

\* C8: a primary purchase is accepted only if one output addressed to the owner
\* of the input datum carries at least the price, and, every other check
\* passing, it is accepted if there is one.
C8_PaymentThreshold ==
    /\ (script \in PrimaryScripts /\ Accepted) => PaysOwner(ctx, ctx.own_datum.price)
    /\ (script = "PrimarySale" /\ Accepted /\ ctx.own_datum.is_for_resale = 0)
          => PaysOwner(ctx, ctx.own_datum.price)
    /\ (script \in PrimaryScripts \cup {"PrimarySale"} /\ Decided /\ OnlyPaymentOpen(ctx))
          => (Accepted <=> PaysOwner(ctx, ctx.own_datum.price))

\* C8 witness: the owner is paid one less than the price, and the purchase
\* is rejected.
C8_Witness ==
    /\ script = "build_primary_sale" /\ Rejected /\ OnlyPaymentOpen(ctx)
    /\ \E i \in DOMAIN ctx.outputs :
          /\ ctx.outputs[i].address = ctx.own_datum.owner
          /\ ctx.outputs[i].value.lovelace = ctx.own_datum.price - 1

\* The outputs at the script address holding one of the ticket's token, and
\* the inputs at the script address.
CandidateOutputs(c) ==
    {i \in DOMAIN c.outputs :
        /\ c.outputs[i].address = OwnAddress
        /\ QuantityOf(c.outputs[i].value, OwnPolicy, TokenName) = 1}
CandidateInputs(c) == {i \in DOMAIN c.inputs : c.inputs[i].address = OwnAddress}

\* C9: a spend with two or more candidate continuing outputs, or, under
\* PrimarySale.py, two or more inputs at the script address, is rejected.
C9_AmbiguousLocateRejected ==
    (/\ script \in SaleScripts /\ Decided
     /\ \/ Cardinality(CandidateOutputs(ctx)) >= 2
        \/ script = "PrimarySale" /\ Cardinality(CandidateInputs(ctx)) >= 2)
        => Rejected

\* C10: no token name exists in a quantity above 1, whatever sequence of mints
\* the minting validator accepted.
C10_NoDuplicateToken ==
    script \in MintScripts => \A n \in MintNames : supply[n] <= 1

\* C11 as stated: the resale validator accepts a list only of a ticket that is
\* not listed, leaving it listed, and a buy only of a listed ticket, leaving it
\* not listed and with another owner.
C11_ListOnlyFromOwned ==
    (script \in ResaleScripts /\ Accepted)
        => \/ /\ ctx.redeemer.action = "list"
              /\ ctx.own_datum.is_for_resale = 0
              /\ ValidatedDatum(ctx).is_for_resale # 0
           \/ /\ ctx.redeemer.action = "buy"
              /\ ctx.own_datum.is_for_resale # 0
              /\ ValidatedDatum(ctx).is_for_resale = 0
              /\ ValidatedDatum(ctx).owner # ctx.own_datum.owner

\* C11 amended: the resale validator accepts a list of a ticket in either
\* state, leaving it listed with the same owner, and a buy only of a listed
\* ticket, leaving it not listed and with another owner; it accepts nothing
\* else.
C11_TwoTransitions ==
    (script \in ResaleScripts /\ Accepted)
        => \/ /\ ctx.redeemer.action = "list"
              /\ ValidatedDatum(ctx).is_for_resale # 0
              /\ ValidatedDatum(ctx).owner = ctx.own_datum.owner
           \/ /\ ctx.redeemer.action = "buy"
              /\ ctx.own_datum.is_for_resale # 0
              /\ ValidatedDatum(ctx).is_for_resale = 0
              /\ ValidatedDatum(ctx).owner # ctx.own_datum.owner

\* C11 witness: a buy of a ticket that is not listed, well-formed in every
\* other respect, is rejected.
C11_Witness ==
    /\ script = "Resale" /\ Rejected
    /\ ctx.redeemer.action = "buy"
    /\ ctx.own_datum.is_for_resale = 0
    /\ \E b \in PKH \ {ctx.own_datum.owner} :
          /\ ctx.signatories = {b}
          /\ ValidatedDatum(ctx) = [ctx.own_datum EXCEPT !.owner = b]
    /\ PaysOwner(ctx, ctx.own_datum.price)

\* The royalty beneficiary of the input datum is paid at least the royalty.
PaysRoyalty(c) ==
    \E i \in DOMAIN c.outputs :
        /\ c.outputs[i].address = c.own_datum.royalty_address
        /\ c.outputs[i].value.lovelace >= c.own_datum.royalty_amount

\* A step of the ledger at a sale script respects the gate.
GateStep ==
    script \in SaleScripts =>
        /\ ticket' # ticket => verdict' = "accept"
        /\ verdict' = "accept" =>
              /\ ctx'.own_datum = ticket
              /\ ticket'.is_for_resale # 0 =>
                    /\ ctx'.redeemer.action = "list"
                    /\ ticket.owner \in ctx'.signatories
              /\ ticket'.is_for_resale = 0 => ctx'.redeemer.action = "buy"
              /\ script \in PrimaryScripts => ticket.is_for_resale = 0
              /\ (script = "PrimarySale" /\ ticket.is_for_resale # 0)
                    => PaysRoyalty(ctx')

\* C12: the ticket's datum changes only by an accepted spend of it; a spend
\* that leaves the ticket listed is a list signed by the owner the ticket had
\* before it, a spend that leaves it not listed is a buy; build_primary_sale.py
\* and primary_sale.py accept no listed ticket, and PrimarySale.py accepts a
\* listed ticket only under the resale rule, with the royalty paid.
C12_SoleGate == [][GateStep]_vars

\* C12 witness: a ticket that was sold and is not listed becomes listed by an
\* accepted list that its owner of the time signed.
C12_Witness ==
    /\ script = "Resale" /\ Accepted
    /\ ctx.redeemer.action = "list"
    /\ ctx.own_datum.is_for_resale = 0
    /\ ctx.own_datum.owner # Organizer
    /\ ctx.own_datum.owner \in ctx.signatories
    /\ ticket.is_for_resale # 0

\* C13: a purchase that build_primary_sale.py or primary_sale.py accepts is
\* signed by the buyer the redeemer names, its continuing output datum names
\* that buyer as owner and keeps the price, and the ticket is not listed
\* before or after.
C13_PrimaryPurchaseChecks ==
    (script \in PrimaryScripts /\ Accepted)
        => /\ ctx.redeemer.buyer \in ctx.signatories
           /\ ValidatedDatum(ctx).owner = ctx.redeemer.buyer
           /\ ValidatedDatum(ctx).price = ctx.own_datum.price
           /\ ctx.own_datum.is_for_resale = 0
           /\ ValidatedDatum(ctx).is_for_resale = 0

\* C13 witness: an accepted purchase from an owner who bought the ticket
\* earlier, by a buyer who signs along with others.
C13_Witness ==
    /\ script = "primary_sale" /\ Accepted
    /\ ctx.own_datum.owner # Organizer
    /\ ctx.redeemer.buyer # ctx.own_datum.owner
    /\ Cardinality(ctx.signatories) >= 2
    /\ ticket.owner = ctx.redeemer.buyer

\* C14: an accepted list leaves the ticket listed at the redeemer's new_price
\* and leaves owner, event_id, ticket_id, royalty_address and royalty_amount
\* as they were in the input datum.
C14_ListFrame ==
    (script \in ResaleScripts /\ Accepted /\ ctx.redeemer.action = "list")
        => /\ ValidatedDatum(ctx).is_for_resale # 0
           /\ ValidatedDatum(ctx).price = ctx.redeemer.new_price
           /\ \A f \in TicketFields \ {"price", "is_for_resale"} :
                 ValidatedDatum(ctx)[f] = ctx.own_datum[f]

\* C14 witness: an accepted list that changes the price.
C14_Witness ==
    /\ script = "Resale" /\ Accepted /\ ctx.redeemer.action = "list"
    /\ ctx.redeemer.new_price # ctx.own_datum.price
    /\ ticket.price = ctx.redeemer.new_price
    /\ ticket.is_for_resale # 0

\* C15: a transaction build_minting_policy.py accepts runs the script for the
\* minting purpose, carries a MintRedeemer of action mint whose event_id is the
\* EventDatum's, and is signed by the EventDatum's organizer; minting_policy.py
\* accepts only with the same redeemer action, event_id and signature.
C15_MintAuthorized ==
    /\ (script = "build_minting_policy" /\ Accepted)
          => /\ ctx.purpose.kind = "Minting"
             /\ ctx.redeemer.cls = "MintRedeemer"
             /\ ctx.redeemer.action = "mint"
             /\ ctx.redeemer.event_id = event.event_id
             /\ event.organizer \in ctx.signatories
    /\ (script = "minting_policy" /\ Accepted)
          => /\ ctx.redeemer.action = "mint"
             /\ "event_id" \in DOMAIN ctx.redeemer
             /\ ctx.redeemer.event_id = event.event_id
             /\ event.organizer \in ctx.signatories

\* The mint field mints one token of one name of the event under the policy.
MintsOneEventToken(mint) ==
    /\ DOMAIN mint = {OwnPolicy}
    /\ \E n \in EventNames : mint[OwnPolicy] = [k \in {n} |-> 1]

\* C15 witness: a mint of one token of the event, with the right purpose and
\* redeemer, signed by others but not by the organizer, is rejected.
C15_Witness ==
    /\ script = "build_minting_policy" /\ Rejected
    /\ ctx.purpose.kind = "Minting"
    /\ ctx.redeemer = [cls |-> "MintRedeemer", action |-> "mint", event_id |-> EventId]
    /\ ctx.signatories # {} /\ event.organizer \notin ctx.signatories
    /\ MintsOneEventToken(ctx.mint)

\* C16: a transaction build_minting_policy.py or minting_policy.py accepts has
\* no policy but the script's own in its mint field, and under it only names
\* that start with the event_id, one of each.
C16_MintShape ==
    (script \in {"build_minting_policy", "minting_policy"} /\ Accepted)
        => \A p \in DOMAIN ctx.mint :
              /\ p = OwnPolicy
              /\ \A n \in DOMAIN ctx.mint[p] :
                    StartsWith(n, event.event_id) /\ ctx.mint[p][n] = 1

\* C16 witness: a mint of one token of the event by the organizer that also
\* mints under another policy is rejected.
C16_Witness ==
    /\ script = "build_minting_policy" /\ Rejected
    /\ ctx.purpose.kind = "Minting"
    /\ ctx.redeemer = [cls |-> "MintRedeemer", action |-> "mint", event_id |-> EventId]
    /\ event.organizer \in ctx.signatories
    /\ DOMAIN ctx.mint = {OwnPolicy, OtherPolicy}
    /\ \E n \in EventNames : ctx.mint[OwnPolicy] = [k \in {n} |-> 1]

\* C17: a purchase of a listed ticket that PrimarySale.py accepts offers at
\* least the listed price, and an output to the seller carries at least the
\* price less the royalty.
C17_OfferAtLeastPrice ==
    (script = "PrimarySale" /\ Accepted /\ ctx.own_datum.is_for_resale # 0)
        => /\ ctx.redeemer.offered_price >= ctx.own_datum.price
           /\ PaysOwner(ctx, ctx.own_datum.price - ctx.own_datum.royalty_amount)

C19_TagSelectsMintOrBurn ==
    (script = "MintingPolicy" /\ Accepted)
        => /\ RequiredSignatory \in ctx.signatories
           /\ OwnPolicy \in DOMAIN ctx.mint
           /\ Cardinality(DOMAIN ctx.mint[OwnPolicy]) = 1
           /\ ctx.redeemer.action_type \in {1, 2}
           /\ \A n \in DOMAIN ctx.mint[OwnPolicy] :
                 /\ ctx.redeemer.action_type = 1 => ctx.mint[OwnPolicy][n] = 1
                 /\ ctx.redeemer.action_type = 2 => ctx.mint[OwnPolicy][n] < 0

\* C19 witness: after a mint, a signed transaction under the mint tag that
\* burns the token is rejected.
C19_Witness ==
    /\ script = "MintingPolicy" /\ Rejected
    /\ ctx.purpose.kind = "Minting"
    /\ RequiredSignatory \in ctx.signatories
    /\ ctx.redeemer.action_type = 1
    /\ \E n \in MintNames : ctx.mint = MintOf([k \in {n} |-> -1])

\* The asset classes of a value, the base currency apart, whose quantity is 1.
NftClasses(value) ==
    IF value.kind # "dict" THEN {}
    ELSE UNION {
           {<<value.items[i].key, value.items[i].val.items[j].key>> :
               j \in {j \in DOMAIN value.items[i].val.items :
                         value.items[i].val.items[j].val = [kind |-> "int", n |-> 1]}} :
           i \in {i \in DOMAIN value.items :
                     value.items[i].key # <<>> /\ value.items[i].val.kind = "dict"}}

\* C20: find_nft_in_value returns a policy id and token name when exactly one
\* asset class other than the base currency has quantity 1, and then that
\* one; it returns None when there is none, when there are several, and when
\* the value is not a mapping.
C20_UniqueNftOrNone ==
    found # Pending =>
        IF Cardinality(NftClasses(bag)) = 1
        THEN \E cls \in NftClasses(bag) : found = [policy |-> cls[1], name |-> cls[2]]
        ELSE found = NoDatum

\* The base currency the outputs of c carry to the payees, each output once.
RECURSIVE PaidTo(_, _)
PaidTo(outputs, payees) ==
    IF outputs = <<>> THEN 0
    ELSE (IF Head(outputs).address \in payees THEN Head(outputs).value.lovelace ELSE 0)
           + PaidTo(Tail(outputs), payees)

\* C23: in an accepted resale buy the outputs to the seller and to the royalty
\* beneficiary carry, together, at least the price plus the royalty, also
\* when the two are one identity; under PrimarySale.py, at least the seller's
\* share plus the royalty.
C23_PaymentsNotDoubleCounted ==
    /\ (script \in ResaleScripts /\ Accepted /\ ctx.redeemer.action = "buy")
          => PaidTo(ctx.outputs, {ctx.own_datum.owner, ctx.own_datum.royalty_address})
                >= ctx.own_datum.price + ctx.own_datum.royalty_amount
    /\ (script = "PrimarySale" /\ Accepted /\ ctx.own_datum.is_for_resale # 0
            /\ ctx.redeemer.offered_price >= ctx.own_datum.royalty_amount)
          => PaidTo(ctx.outputs, {ctx.own_datum.owner, ctx.own_datum.royalty_address})
                >= ctx.redeemer.offered_price

\* The transaction spends two outputs locked at the script.
IsPair == "second" \in DOMAIN ctx

\* C22: a transaction that spends two tickets of one seller is accepted only
\* if its outputs to that seller carry, together, at least the sum of the two
\* prices.
C22_BothTicketsPaid ==
    (Accepted /\ IsPair /\ script \in PrimaryScripts \cup ResaleScripts
        /\ ctx.second.own_policy_id = OwnPolicy
        /\ ctx.second.own_datum.owner = ctx.own_datum.owner)
      => PaidTo(ctx.outputs, {ctx.own_datum.owner})
            >= ctx.own_datum.price + ctx.second.own_datum.price

\* The ticket's token is locked at the script under a datum in the outputs.
TicketLocked(outputs) ==
    \E i \in DOMAIN outputs :
        /\ outputs[i].address = OwnAddress
        /\ QuantityOf(outputs[i].value, OwnPolicy, TokenName) = 1
        /\ outputs[i].datum # NoDatum

\* C24: every accepted spend has an output at the script address that holds
\* exactly one of the ticket's token and carries a datum, so the ticket
\* stays locked at the script under a datum.
C24_TicketStaysLocked ==
    script \in SaleScripts =>
        /\ Accepted => TicketLocked(ctx.outputs)
        /\ ticket # NoDatum

====
